---- MODULE Spec2Model ----
(***************************************************************************)
(* Fetch / cache / decode pipeline of tilearray (src/src/tilearray).       *)
(*                                                                         *)
(* Each task is one deferred call of _load_tile_array on one TileRequest.  *)
(* Tasks run concurrently once the array is computed and share only the    *)
(* on-disk cache directory.  The HTTP server, the file system and the      *)
(* caller-supplied tile decoder are the environment: the status of every   *)
(* GET, the success of every file operation and the decoder's outcome are  *)
(* nondeterministic; the body the server sends for one cache key is fixed  *)
(* the first time it is served.                                            *)
(*                                                                         *)
(* Strings that the code orders (query parameter names and values) are     *)
(* represented by their rank in lexicographic order; bytes by naturals.    *)
(***************************************************************************)
EXTENDS Integers, Sequences, FiniteSets, TLC

\* ---------------------------------------------------------------- bounds
NTasks == 2
MaxRetries == 1

Tasks == 1..NTasks

\* ------------------------------------------------------------- constants
\* np.nan, the fill value of a failed tile
NaN == -1
\* the status of the synthetic response built for a cache hit
StatusOK == 200
\* status_code of the response built after a transport error
StatusNone == 0
\* TileRequest.timeout default
DefaultTimeout == 30

None == "None"
NoError == "None"
NoDir == "None"
CacheDir == "cache_dir"

\* ------------------------------------------------------------ data model
\* BoundingBox.model_dump()
BBox(x0, y0, x1, y1) ==
  [min_x |-> x0, min_y |-> y0, max_x |-> x1, max_y |-> y1, crs |-> "EPSG:4326"]

\* one query parameter: name and value; str() of a value drops its type
Param(k, ty, v) == [k |-> k, ty |-> ty, v |-> v]

Str(p) == <<p.k, p.v>>

\* TileRequest; headers None and {} are both the empty set, a missing
\* width / height / bbox is 0 / 0 / None
TileRequest(params, headers, timeout, retries, fmt, bbox, width, height) ==
  [url |-> "http://svc", params |-> params, headers |-> headers,
   timeout |-> timeout, retries |-> retries, output_format |-> fmt,
   crs |-> "EPSG:4326", bbox |-> bbox, width |-> width, height |-> height]

ParamA == Param(1, "str", 1)
ParamB == Param(2, "str", 2)

\* The requests tasks are created with.  The first two differ in the order
\* of their parameters, headers, timeout and retries only.
PoolSeq ==
  << TileRequest(<<ParamA, ParamB>>, {}, DefaultTimeout, MaxRetries,
                 "image/tiff", BBox(0, 0, 1, 1), 2, 1),
     TileRequest(<<ParamB, ParamA>>, {"X-Token"}, 60, 0,
                 "image/tiff", BBox(0, 0, 1, 1), 2, 1),
     TileRequest(<<ParamA>>, {}, DefaultTimeout, 0,
                 None, BBox(1, 0, 2, 1), 0, 0),
     TileRequest(<<>>, {}, DefaultTimeout, 0,
                 "image/tiff", BBox(0, 1, 1, 2), 2, 1) >>

RequestPool == { PoolSeq[i] : i \in 1..Len(PoolSeq) }

\* bodies the server may send with a 200
Bodies == { <<>>, <<7>>, <<8, 9>> }

\* ------------------------------------------------------------ _cache_key
PairLess(a, b) == a[1] < b[1] \/ (a[1] = b[1] /\ a[2] < b[2])

RECURSIVE Insert(_, _)
Insert(x, s) ==
  IF s = <<>> THEN <<x>>
  ELSE IF PairLess(s[1], x) THEN <<s[1]>> \o Insert(x, Tail(s))
  ELSE <<x>> \o s

RECURSIVE Sorted(_)
Sorted(s) == IF s = <<>> THEN <<>> ELSE Insert(s[1], Sorted(Tail(s)))

StrPairs(params) == [i \in 1..Len(params) |-> Str(params[i])]

\* the serialised payload; sha256 of it is taken as injective
_cache_key_unsorted(request) ==
  [url |-> request.url,
   params |-> StrPairs(request.params),
   format |-> request.output_format,
   bbox |-> request.bbox,
   width |-> request.width,
   height |-> request.height]

_cache_key(request) ==
  [url |-> request.url,
   params |-> Sorted(StrPairs(request.params)),
   format |-> request.output_format,
   bbox |-> request.bbox,
   width |-> request.width,
   height |-> request.height]

Keys == { _cache_key(r) : r \in RequestPool }

\* what the server is asked for: the url and the query string
Resource(request) == <<request.url, Sorted(StrPairs(request.params))>>

Resources == { Resource(r) : r \in RequestPool }

\* ----------------------------------------------------------------- arrays
\* a 2-D array is a sequence of rows
Full(h, w, v) == [i \in 1..h |-> [j \in 1..w |-> v]]

Height(a) == Len(a)

Width(a) == IF Len(a) = 0 THEN 0 ELSE Len(a[1])

\* what the decoder makes of a body, for each shape it may return; the
\* values are multiples of 4 so that the block means below are exact
Pattern(h, w, data) ==
  [i \in 1..h |-> [j \in 1..w |-> 4 * (((i + 2 * j + Len(data)) % 3) + 1)]]

DecodedShapes == { <<1, 2>>, <<2, 4>>, <<1, 3>>, <<1, 1>> }

RECURSIVE SumSeq(_)
SumSeq(s) == IF s = <<>> THEN 0 ELSE s[1] + SumSeq(Tail(s))

\* the mean of the fy x fx block of cell (i, j)
BlockCorner(array, i, j, fy, fx) == array[(i - 1) * fy + 1][(j - 1) * fx + 1]

BlockMean(array, i, j, fy, fx) ==
  SumSeq([r \in 1..fy |->
            SumSeq([c \in 1..fx |-> array[(i - 1) * fy + r][(j - 1) * fx + c]])])
    \div (fy * fx)

\* _downsample_array: ok = FALSE stands for the ValueError it raises
_resample_array(array, target_height, target_width) ==
  [ok |-> TRUE,
   array |-> [i \in 1..target_height |->
                [j \in 1..target_width |->
                   array[((i - 1) * Height(array)) \div target_height + 1]
                        [((j - 1) * Width(array)) \div target_width + 1]]]]

_downsample_array(array, target_height, target_width) ==
  LET actual_height == Height(array)
      actual_width == Width(array)
  IN  IF actual_height = target_height /\ actual_width = target_width
        THEN [ok |-> TRUE, array |-> array]
      ELSE IF target_height <= 0 \/ target_width <= 0
        THEN [ok |-> FALSE, array |-> <<>>]
      ELSE IF actual_height < target_height \/ actual_width < target_width
        THEN [ok |-> FALSE, array |-> <<>>]
      ELSE IF actual_height % target_height # 0 \/ actual_width % target_width # 0
        THEN [ok |-> FALSE, array |-> <<>>]
      ELSE LET factor_y == actual_height \div target_height
               factor_x == actual_width \div target_width
           IN  [ok |-> TRUE,
                array |-> [i \in 1..target_height |->
                             [j \in 1..target_width |->
                                BlockMean(array, i, j, factor_y, factor_x)]]]

\* the array _load_tile_array returns for a failed fetch
NanFillZeros(request) == Full(request.height, request.width, 0)

NanFill(request) == Full(request.height, request.width, NaN)

\* -------------------------------------------------------------- responses
NoResponse ==
  [data |-> <<>>, status_code |-> -1, url |-> "", success |-> FALSE,
   error_message |-> NoError]

TileResponse(data, status_code, url, success, error_message) ==
  [data |-> data, status_code |-> status_code, url |-> url,
   success |-> success, error_message |-> error_message]

\* the response _fetch_with_cache builds from a cache file
CacheHitResponseEmptyAsMiss(request, cached) ==
  TileResponse(cached, StatusOK, request.url, cached # <<>>, NoError)

CacheHitResponse(request, cached) ==
  TileResponse(cached, StatusOK, request.url, TRUE, NoError)

\* the branch of fetch_tile taken for an attempt answered with 200
OkResponse(request, body) ==
  TileResponse(body, StatusOK, request.url, TRUE, NoError)

\* the response of fetch_tile after the last attempt failed
FailureResponseNoMessage(request, kind) ==
  IF kind = "http"
    THEN TileResponse(<<>>, 500, request.url, FALSE, "HTTP 500")
    ELSE TileResponse(<<>>, StatusNone, request.url, FALSE, NoError)

FailureResponse(request, kind) ==
  IF kind = "http"
    THEN TileResponse(<<>>, 500, request.url, FALSE, "HTTP 500")
    ELSE TileResponse(<<>>, StatusNone, request.url, FALSE, "Network error")

\* "if attempt == request.retries": the failed attempt was the last one
LastAttemptOffByOne(request, attempt) == attempt = request.retries + 1

LastAttempt(request, attempt) == attempt = request.retries

\* _fetch_with_cache writes the body of a successful fetch when a cache
\* directory is set and the body is not empty
ShouldWriteInverted(cache_dir, response) ==
  cache_dir # NoDir /\ ~response.success

ShouldWrite(cache_dir, response) ==
  cache_dir # NoDir /\ response.success /\ response.data # <<>>

\* write(data) on a file opened at offset 0
WriteAt0Short(file, data) == SubSeq(data, 1, Len(data) - 1)

WriteAt0(file, data) == data \o SubSeq(file, Len(data) + 1, Len(file))

\* ------------------------------------------------------------------ state
VARIABLES
  req,       \* req[t]: the TileRequest of task t
  cacheDir,  \* the cache_dir the tasks are created with, or NoDir
  cache,     \* cache[k]: the file <k>.tile, [exists, data]
  served,    \* served[r]: the body the server has sent for resource r
  pc,        \* pc[t]: where task t is
  attempt,   \* attempt[t]: the loop variable of fetch_tile
  gets,      \* gets[t]: the HTTP GETs task t has made
  saw200,    \* saw200[t]: one of them was answered with 200
  resp,      \* resp[t]: the response _fetch_with_cache returned
  via,       \* via[t]: "cache" or "live", how that response was obtained
  wrote,     \* wrote[t]: how the cache write of task t ended
  decoded,   \* decoded[t]: the array the decoder returned to task t
  result,    \* result[t]: the array the task returned
  err        \* err[t]: the exception the task raised

\* The state of the other parts of the program, which the tile tasks never
\* touch: each has a specification of its own below.
VARIABLES
  plan,      \* the call of a planning or assembly function: [op, in, out]
  build,     \* the call of create_array: where it is and what it has done
  env        \* env[t]: what the server, the disk and the decoder do to task t

taskVars == <<req, cacheDir, cache, served, pc, attempt, gets, saw200, resp, via,
              wrote, decoded, result, err>>

aux == <<plan, build, env>>

vars == <<req, cacheDir, cache, served, pc, attempt, gets, saw200, resp, via,
          wrote, decoded, result, err, plan, build, env>>

NoCall == [op |-> "none", in |-> <<>>, out |-> <<>>]

NoBuild == [pc |-> "none"]

NoEnv == <<>>

NoFile == [exists |-> FALSE, data |-> <<>>]

Unserved == [set |-> FALSE, body |-> <<>>]

Init ==
  /\ \E choice \in [Tasks -> 1..Len(PoolSeq)] :
       /\ \A t \in Tasks : t + 1 \in Tasks => choice[t] <= choice[t + 1]
       /\ req = [t \in Tasks |-> PoolSeq[choice[t]]]
  /\ cacheDir \in {NoDir, CacheDir}
  /\ cache = [k \in Keys |-> NoFile]
  /\ served = [r \in Resources |-> Unserved]
  /\ pc = [t \in Tasks |-> "start"]
  /\ attempt = [t \in Tasks |-> 0]
  /\ gets = [t \in Tasks |-> 0]
  /\ saw200 = [t \in Tasks |-> FALSE]
  /\ resp = [t \in Tasks |-> NoResponse]
  /\ via = [t \in Tasks |-> "none"]
  /\ wrote = [t \in Tasks |-> "none"]
  /\ decoded = [t \in Tasks |-> <<>>]
  /\ result = [t \in Tasks |-> <<>>]
  /\ err = [t \in Tasks |-> NoError]
  /\ plan = NoCall
  /\ build = NoBuild
  /\ env = NoEnv

\* the cache file of task t
KeyOfUrl(t) == req[t].url

Key(t) == _cache_key(req[t])

\* _fetch_with_cache up to the call of fetch_tile: _read_cache and the
\* synthetic response of a hit.  exists() and read_bytes() are one step:
\* files are never removed, so the bytes are those of the time of the read.
\* On a miss, or without a cache directory, fetch_tile starts: its two checks
\* and the Accept header, which setdefault adds to the request's own dict
\* when that dict is not empty.
FetchBegin(t) ==
  IF req[t].url = "" \/ req[t].params = <<>>
    THEN /\ pc' = [pc EXCEPT ![t] = "raised"]
         /\ err' = [err EXCEPT ![t] = "ValueError"]
         /\ UNCHANGED req
    ELSE /\ pc' = [pc EXCEPT ![t] = "attempt"]
         /\ req' = [req EXCEPT ![t].headers =
                      IF @ # {} /\ req[t].output_format # None
                        THEN @ \cup {"Accept"} ELSE @]
         /\ UNCHANGED err

CacheLookup(t) ==
  /\ pc[t] = "start"
  /\ IF cacheDir # NoDir /\ cache[Key(t)].exists
       THEN /\ resp' = [resp EXCEPT ![t] = CacheHitResponse(req[t], cache[Key(t)].data)]
            /\ via' = [via EXCEPT ![t] = "cache"]
            /\ pc' = [pc EXCEPT ![t] = "loaded"]
            /\ UNCHANGED <<req, err>>
       ELSE /\ FetchBegin(t)
            /\ UNCHANGED <<resp, via>>
  /\ UNCHANGED <<cacheDir, cache, served, attempt, gets, saw200, wrote,
                 decoded, result>>
  /\ UNCHANGED aux

\* fetch_tile has returned `response` to _fetch_with_cache
Returned(t, response) ==
  /\ resp' = [resp EXCEPT ![t] = response]
  /\ via' = [via EXCEPT ![t] = "live"]
  /\ pc' = [pc EXCEPT ![t] =
              IF ShouldWrite(cacheDir, response) THEN "wopen" ELSE "loaded"]

\* one GET answered with 200
Attempt200(t) ==
  /\ pc[t] = "attempt"
  /\ \E body \in Bodies :
       /\ served[Resource(req[t])].set => body = served[Resource(req[t])].body
       /\ served' = [served EXCEPT ![Resource(req[t])] = [set |-> TRUE, body |-> body]]
       /\ Returned(t, OkResponse(req[t], body))
  /\ gets' = [gets EXCEPT ![t] = @ + 1]
  /\ saw200' = [saw200 EXCEPT ![t] = TRUE]
  /\ UNCHANGED <<req, cacheDir, cache, attempt, wrote, decoded, result, err>>
  /\ UNCHANGED aux

\* one GET answered with another status ("http") or ended by a
\* requests.RequestException ("exc")
AttemptFail(t) ==
  /\ pc[t] = "attempt"
  /\ \E kind \in {"http", "exc"} :
       IF LastAttempt(req[t], attempt[t])
         THEN /\ Returned(t, FailureResponse(req[t], kind))
              /\ UNCHANGED attempt
         ELSE /\ attempt' = [attempt EXCEPT ![t] = @ + 1]
              /\ UNCHANGED <<resp, via, pc>>
  /\ gets' = [gets EXCEPT ![t] = @ + 1]
  /\ UNCHANGED <<req, cacheDir, cache, served, saw200, wrote, decoded, result, err>>
  /\ UNCHANGED aux

\* _write_cache, first half: mkdir and open(path, "wb") create or truncate
WriteOpen(t) ==
  /\ pc[t] = "wopen"
  /\ cache' = [cache EXCEPT ![Key(t)] = [exists |-> TRUE, data |-> <<>>]]
  /\ pc' = [pc EXCEPT ![t] = "wwrite"]
  /\ UNCHANGED <<req, cacheDir, served, attempt, gets, saw200, resp, via, wrote,
                 decoded, result, err>>
  /\ UNCHANGED aux

\* mkdir or open raises OSError, which nothing catches
WriteOpenFail(t) ==
  /\ pc[t] = "wopen"
  /\ wrote' = [wrote EXCEPT ![t] = "failed_open"]
  /\ pc' = [pc EXCEPT ![t] = "raised"]
  /\ err' = [err EXCEPT ![t] = "OSError"]
  /\ UNCHANGED <<req, cacheDir, cache, served, attempt, gets, saw200, resp, via,
                 decoded, result>>
  /\ UNCHANGED aux

\* _write_cache, second half: write(data) and close
WriteData(t) ==
  /\ pc[t] = "wwrite"
  /\ cache' = [cache EXCEPT ![Key(t)].data = WriteAt0(@, resp[t].data)]
  /\ wrote' = [wrote EXCEPT ![t] = "ok"]
  /\ pc' = [pc EXCEPT ![t] = "loaded"]
  /\ UNCHANGED <<req, cacheDir, served, attempt, gets, saw200, resp, via,
                 decoded, result, err>>
  /\ UNCHANGED aux

\* write raises OSError after the file was truncated
WriteDataFail(t) ==
  /\ pc[t] = "wwrite"
  /\ wrote' = [wrote EXCEPT ![t] = "failed_write"]
  /\ pc' = [pc EXCEPT ![t] = "raised"]
  /\ err' = [err EXCEPT ![t] = "OSError"]
  /\ UNCHANGED <<req, cacheDir, cache, served, attempt, gets, saw200, resp, via,
                 decoded, result>>
  /\ UNCHANGED aux

\* _load_tile_array after _fetch_with_cache returned a failure
LoadFailedAfterSiblings(t) ==
  /\ pc[t] = "loaded"
  /\ ~resp[t].success
  /\ \A u \in Tasks \ {t} : pc[u] \in {"done", "raised"}
  /\ result' = [result EXCEPT ![t] = NanFill(req[t])]
  /\ pc' = [pc EXCEPT ![t] = "done"]
  /\ UNCHANGED <<req, cacheDir, cache, served, attempt, gets, saw200, resp, via,
                 wrote, decoded, err>>
  /\ UNCHANGED aux

LoadFailed(t) ==
  /\ pc[t] = "loaded"
  /\ ~resp[t].success
  /\ result' = [result EXCEPT ![t] = NanFill(req[t])]
  /\ pc' = [pc EXCEPT ![t] = "done"]
  /\ UNCHANGED <<req, cacheDir, cache, served, attempt, gets, saw200, resp, via,
                 wrote, decoded, err>>
  /\ UNCHANGED aux

\* the decoder raises, or returns something that is not 2-D
DecodeRaises(t) ==
  /\ pc[t] = "loaded"
  /\ resp[t].success
  /\ \E e \in {"DecodeError", "ValueError"} : err' = [err EXCEPT ![t] = e]
  /\ pc' = [pc EXCEPT ![t] = "raised"]
  /\ UNCHANGED <<req, cacheDir, cache, served, attempt, gets, saw200, resp, via,
                 wrote, decoded, result>>
  /\ UNCHANGED aux

\* the decoder returns a 2-D array; _downsample_array brings it to the
\* requested shape or raises
DecodeArray(t) ==
  /\ pc[t] = "loaded"
  /\ resp[t].success
  /\ \E shape \in DecodedShapes :
       LET array == Pattern(shape[1], shape[2], resp[t].data)
           target_height == IF req[t].height # 0 THEN req[t].height ELSE Height(array)
           target_width == IF req[t].width # 0 THEN req[t].width ELSE Width(array)
           down == _downsample_array(array, target_height, target_width)
       IN  IF down.ok
             THEN /\ decoded' = [decoded EXCEPT ![t] = array]
                  /\ result' = [result EXCEPT ![t] = down.array]
                  /\ pc' = [pc EXCEPT ![t] = "done"]
                  /\ UNCHANGED err
             ELSE /\ decoded' = [decoded EXCEPT ![t] = array]
                  /\ pc' = [pc EXCEPT ![t] = "raised"]
                  /\ err' = [err EXCEPT ![t] = "ShapeError"]
                  /\ UNCHANGED result
  /\ UNCHANGED <<req, cacheDir, cache, served, attempt, gets, saw200, resp, via,
                 wrote>>
  /\ UNCHANGED aux

Next ==
  \E t \in Tasks :
    \/ CacheLookup(t)
    \/ Attempt200(t)
    \/ AttemptFail(t)
    \/ WriteOpen(t)
    \/ WriteOpenFail(t)
    \/ WriteData(t)
    \/ WriteDataFail(t)
    \/ LoadFailed(t)
    \/ DecodeRaises(t)
    \/ DecodeArray(t)

Spec == Init /\ [][Next]_vars

\* ------------------------------------------------------------- properties
Finished(t) == pc[t] \in {"done", "raised"}

\* _fetch_with_cache has returned a response to _load_tile_array
FetchReturned(t) ==
  /\ via[t] # "none"
  /\ pc[t] \in {"loaded", "done", "raised"}
  /\ wrote[t] \notin {"failed_open", "failed_write"}

\* fetch_tile has returned a response
LiveReturned(t) == via[t] = "live"

Valid(request) == request.url # "" /\ request.params # <<>>

\* no write of the entry k is under way or has failed half-way
Quiet(k) ==
  \A u \in Tasks :
    _cache_key(req[u]) = k => pc[u] # "wwrite" /\ wrote[u] # "failed_write"

\* C1: a task whose fetch failed does not raise and returns an all-NaN array
\* of the requested (height, width); a sibling whose fetch succeeded returns
\* the array its decoder produced (brought to the requested shape), unchanged
\* when it already has that shape.
C1Theorem ==
  \A t \in Tasks :
    (LiveReturned(t) /\ ~resp[t].success) =>
      /\ pc[t] \in {"loaded", "done"}
      /\ err[t] = NoError
      /\ pc[t] = "done" =>
           /\ result[t] = Full(req[t].height, req[t].width, NaN)
           /\ \A u \in Tasks \ {t} :
                (/\ pc[u] = "done" /\ resp[u].success
                 /\ Height(decoded[u]) = req[u].height
                 /\ Width(decoded[u]) = req[u].width) => result[u] = decoded[u]

C1Witness ==
  \E t, u \in Tasks :
    /\ t # u
    /\ pc[t] = "done" /\ LiveReturned(t) /\ ~resp[t].success
    /\ resp[t].status_code = 500
    /\ result[t] = <<<<NaN, NaN>>>>
    /\ pc[u] = "done" /\ resp[u].success /\ result[u] = decoded[u]
    /\ Height(result[u]) = 1 /\ Width(result[u]) = 2

\* C2 (as claimed): when the decoder raises for a tile whose fetch
\* succeeded, the task returns an all-NaN array of the requested shape and
\* does not raise.
C2Claim ==
  \A t \in Tasks :
    (resp[t].success /\ err[t] = "DecodeError") =>
      pc[t] = "done" /\ result[t] = Full(req[t].height, req[t].width, NaN)

C4Theorem ==
  /\ [](\A t \in Tasks :
          /\ gets[t] <= req[t].retries + 1
          /\ saw200[t] => LiveReturned(t)
          /\ LiveReturned(t) =>
               /\ resp[t].success <=> saw200[t]
               /\ resp[t].success =>
                    /\ served[Resource(req[t])].set
                    /\ resp[t].data = served[Resource(req[t])].body)
  /\ [][\A t \in Tasks : saw200[t] => gets'[t] = gets[t]]_vars

C4Witness ==
  \E t \in Tasks :
    /\ gets[t] = MaxRetries + 1 /\ saw200[t]
    /\ LiveReturned(t) /\ resp[t].success /\ resp[t].data # <<>>

\* C5: a task that starts its fetch with a cache directory while the file of
\* its key exists gets, in that step, a response with success = true, status
\* 200 and exactly the bytes of the file, and it never makes a GET.
C5Theorem ==
  /\ [][\A t \in Tasks :
          (/\ pc[t] = "start" /\ pc'[t] # "start"
           /\ cacheDir # NoDir /\ cache[_cache_key(req[t])].exists) =>
            /\ resp'[t] = [data |-> cache[_cache_key(req[t])].data,
                           status_code |-> 200, url |-> req[t].url,
                           success |-> TRUE, error_message |-> NoError]
            /\ via'[t] = "cache"
            /\ pc'[t] = "loaded"
            /\ gets'[t] = 0]_vars
  /\ [](\A t \in Tasks : via[t] = "cache" => gets[t] = 0 /\ ~saw200[t])

C5Witness ==
  \E t \in Tasks :
    /\ via[t] = "cache" /\ FetchReturned(t)
    /\ resp[t].data = <<8, 9>> /\ resp[t].status_code = 200

\* the live fetch of task t was answered with 200, its cache write did not
\* fail and _fetch_with_cache has returned
LiveStored(t) ==
  /\ cacheDir # NoDir
  /\ LiveReturned(t) /\ resp[t].success
  /\ FetchReturned(t)

SameIdentity(r1, r2) ==
  /\ r1.url = r2.url
  /\ { r1.params[i] : i \in 1..Len(r1.params) } = { r2.params[i] : i \in 1..Len(r2.params) }
  /\ Len(r1.params) = Len(r2.params)
  /\ r1.output_format = r2.output_format
  /\ r1.bbox = r2.bbox
  /\ r1.width = r2.width
  /\ r1.height = r2.height

\* C7: requests that agree on url, parameter set, format, bbox, width and
\* height have the same cache key, whatever the order of their parameters
\* and whatever their headers, timeout and retries.
C7Theorem ==
  \A t, u \in Tasks :
    SameIdentity(req[t], req[u]) => _cache_key(req[t]) = _cache_key(req[u])

C7Witness ==
  \E t, u \in Tasks :
    /\ SameIdentity(req[t], req[u])
    /\ req[t].params # req[u].params
    /\ req[t].headers # req[u].headers
    /\ req[t].timeout # req[u].timeout
    /\ req[t].retries # req[u].retries
    /\ wrote[t] = "ok" /\ via[u] = "cache"

\* C8 (as claimed): a task that reads a cache entry reads the complete body
\* that was written under its key, never a part of it.
C8Claim ==
  \A t \in Tasks :
    via[t] = "cache" =>
      /\ served[Resource(req[t])].set
      /\ resp[t].data = served[Resource(req[t])].body

C10Claim ==
  \A t \in Tasks :
    (saw200[t] /\ wrote[t] \in {"failed_open", "failed_write"}) =>
      ~(pc[t] = "raised" /\ err[t] = "OSError")

\* ================================================================ planning
\* BaseService.plan_tiles, a pure function.  Coordinates, spans and
\* resolutions are fixed-point numbers, whole counts of one unit: sums,
\* products and comparisons are exact, and a division rounds down to the
\* unit, as a float division rounds to a representable number.

MaxGrid == 2

Min(a, b) == IF a < b THEN a ELSE b

Max(a, b) == IF a > b THEN a ELSE b

Div(a, b) == a \div b

\* int(math.ceil(a / b)) for b > 0
Ceil(a, b) == -((-a) \div b)

NoOption == <<>>

\* BoundingBox's validator: min_x < max_x and min_y < max_y
ValidBBoxOrFlat(b) == b.min_x <= b.max_x /\ b.min_y <= b.max_y

ValidBBox(b) == b.min_x < b.max_x /\ b.min_y < b.max_y

\* BoundingBox(min_x=..., ...): the object, alone in a tuple, or ok = FALSE
\* and no object for the ValueError of the validator
BoundingBox(min_x, min_y, max_x, max_y) ==
  IF ValidBBox(BBox(min_x, min_y, max_x, max_y))
    THEN [ok |-> TRUE, bbox |-> <<BBox(min_x, min_y, max_x, max_y)>>]
    ELSE [ok |-> FALSE, bbox |-> <<>>]

\* the coordinates a BoundingBox is constructed from
Coordinates == 0..2

TileGeometry(bbox, width, height) ==
  [bbox |-> bbox, width |-> width, height |-> height]

\* TileGeometry and its BoundingBox validate: width, height > 0
ValidGeometry(g) == ValidBBox(g.bbox) /\ g.width > 0 /\ g.height > 0

\* the far edge of cell i of n in explicit-grid mode
FarEdgeUnclamped(lo, hi, step, i, n) == lo + (i + 1) * step

FarEdge(lo, hi, step, i, n) == IF i < n - 1 THEN lo + (i + 1) * step ELSE hi

\* explicit-grid mode: rows from south to north, columns from west to east
GridMode(bbox, width, height, rows, cols) ==
  LET x_span == bbox.max_x - bbox.min_x
      y_span == bbox.max_y - bbox.min_y
      step_x == IF cols > 0 THEN Div(x_span, cols) ELSE x_span
      step_y == IF rows > 0 THEN Div(y_span, rows) ELSE y_span
      Tile(row, col) ==
        TileGeometry(BBox(bbox.min_x + col * step_x,
                          bbox.min_y + row * step_y,
                          FarEdge(bbox.min_x, bbox.max_x, step_x, col, cols),
                          FarEdge(bbox.min_y, bbox.max_y, step_y, row, rows)),
                     width, height)
  IN  [k \in 1..(rows * cols) |-> Tile((k - 1) \div cols, (k - 1) % cols)]

\* the loop guard of resolution mode
MoreCells(current_min, hi, epsilon) == current_min < hi - epsilon

\* one axis of resolution mode: the cells [min, max] the while loop walks
RECURSIVE Cells(_, _, _, _)
Cells(current_min, hi, tile_units, epsilon) ==
  IF MoreCells(current_min, hi, epsilon)
    THEN LET current_max == Min(hi, current_min + tile_units)
         IN  <<[min |-> current_min, max |-> current_max]>>
               \o Cells(current_max, hi, tile_units, epsilon)
    ELSE <<>>

\* the pixel count of a cell
PixelsFloor(span, res) == Max(1, span \div res)

Pixels(span, res) == Max(1, Ceil(span, res))

ResolutionMode(bbox, width, height, res_x, res_y) ==
  LET epsilon == Div(Min(res_x, res_y), 10)
      ys == Cells(bbox.min_y, bbox.max_y, height * res_y, epsilon)
      xs == Cells(bbox.min_x, bbox.max_x, width * res_x, epsilon)
      Tile(y, x) ==
        TileGeometry(BBox(x.min, y.min, x.max, y.max),
                     Pixels(x.max - x.min, res_x), Pixels(y.max - y.min, res_y))
  IN  [k \in 1..(Len(ys) * Len(xs)) |->
         Tile(ys[((k - 1) \div Len(xs)) + 1], xs[((k - 1) % Len(xs)) + 1])]

\* plan_tiles(bbox, chunk_size, resolution=..., grid_shape=...): the tiles,
\* or ok = FALSE for the ValueError it raises
plan_tiles(bbox, chunk_size, resolution, grid_shape) ==
  LET width == chunk_size[1]
      height == chunk_size[2]
      rows == IF grid_shape = NoOption THEN 1 ELSE grid_shape[1]
      cols == IF grid_shape = NoOption THEN 1 ELSE grid_shape[2]
      Checked(tiles) ==
        IF \A k \in 1..Len(tiles) : ValidGeometry(tiles[k])
          THEN [ok |-> TRUE, tiles |-> tiles]
          ELSE [ok |-> FALSE, tiles |-> <<>>]
  IN  IF resolution # NoOption
        THEN IF resolution[1] <= 0 \/ resolution[2] <= 0
               THEN [ok |-> FALSE, tiles |-> <<>>]
               ELSE Checked(ResolutionMode(bbox, width, height,
                                           resolution[1], resolution[2]))
        ELSE IF rows <= 0 \/ cols <= 0
               THEN [ok |-> FALSE, tiles |-> <<>>]
               ELSE Checked(GridMode(bbox, width, height, rows, cols))

\* the inputs of the planner
GridBoxes ==
  { BBox(x0, y0, x0 + sx, y0 + sy) :
      x0 \in {0, 5}, y0 \in {0}, sx \in {4, 6, 7}, sy \in {4, 7} }

ChunkSizes == { <<1, 1>>, <<2, 1>>, <<1, 3>> }

GridShapes == (0..MaxGrid) \X (0..MaxGrid)

ResolutionBoxes ==
  { BBox(0, y0, sx, y0 + sy) :
      y0 \in {0, 10}, sx \in {1, 10, 20, 21, 25, 40}, sy \in {10, 11, 30} }

Resolutions == { <<10, 10>>, <<10, 20>>, <<20, 10>>, <<0, 10>>, <<10, 0>> }

\* no tile task exists while the planner runs
NoTasks ==
  /\ req = [t \in Tasks |-> PoolSeq[1]]
  /\ cacheDir = NoDir
  /\ cache = [k \in Keys |-> NoFile]
  /\ served = [r \in Resources |-> Unserved]
  /\ pc = [t \in Tasks |-> "start"]
  /\ attempt = [t \in Tasks |-> 0]
  /\ gets = [t \in Tasks |-> 0]
  /\ saw200 = [t \in Tasks |-> FALSE]
  /\ resp = [t \in Tasks |-> NoResponse]
  /\ via = [t \in Tasks |-> "none"]
  /\ wrote = [t \in Tasks |-> "none"]
  /\ decoded = [t \in Tasks |-> <<>>]
  /\ result = [t \in Tasks |-> <<>>]
  /\ err = [t \in Tasks |-> NoError]

InitPlan == NoTasks /\ plan = NoCall /\ build = NoBuild /\ env = NoEnv

\* plan_tiles called without a resolution
PlanGrid ==
  /\ plan = NoCall
  /\ \E bbox \in GridBoxes, chunk_size \in ChunkSizes, grid_shape \in GridShapes :
       plan' = [op |-> "plan_grid",
                in |-> [bbox |-> bbox, chunk_size |-> chunk_size,
                        grid_shape |-> grid_shape],
                out |-> plan_tiles(bbox, chunk_size, NoOption, grid_shape)]
  /\ UNCHANGED <<taskVars, build, env>>

\* plan_tiles called with a resolution
PlanResolution ==
  /\ plan = NoCall
  /\ \E bbox \in ResolutionBoxes, chunk_size \in ChunkSizes, resolution \in Resolutions :
       plan' = [op |-> "plan_resolution",
                in |-> [bbox |-> bbox, chunk_size |-> chunk_size,
                        resolution |-> resolution],
                out |-> plan_tiles(bbox, chunk_size, resolution, <<1, 1>>)]
  /\ UNCHANGED <<taskVars, build, env>>

\* ---- geometry of a plan
Area(b) == (b.max_x - b.min_x) * (b.max_y - b.min_y)

Inside(a, b) ==
  /\ b.min_x <= a.min_x /\ a.max_x <= b.max_x
  /\ b.min_y <= a.min_y /\ a.max_y <= b.max_y

InteriorsDisjoint(a, b) ==
  \/ a.max_x <= b.min_x \/ b.max_x <= a.min_x
  \/ a.max_y <= b.min_y \/ b.max_y <= a.min_y

RECURSIVE SumArea(_, _)
SumArea(tiles, n) ==
  IF n = 0 THEN 0 ELSE Area(tiles[n].bbox) + SumArea(tiles, n - 1)

\* the tiles have pairwise disjoint interiors and their union is bbox:
\* rectangles inside bbox that do not overlap and add up to its area
Partition(tiles, bbox) ==
  /\ \A k \in 1..Len(tiles) : ValidBBox(tiles[k].bbox) /\ Inside(tiles[k].bbox, bbox)
  /\ \A j, k \in 1..Len(tiles) :
       j # k => InteriorsDisjoint(tiles[j].bbox, tiles[k].bbox)
  /\ SumArea(tiles, Len(tiles)) = Area(bbox)

\* C13: in explicit-grid mode, for a valid bounding box and positive
\* (rows, cols), plan_tiles yields exactly rows * cols tiles, each with the
\* chunk's pixel width and height, with pairwise disjoint interiors and with
\* the bounding box as their union; the last row and the last column end on
\* the box's max_y and max_x.
C13Theorem ==
  (plan.op = "plan_grid" /\ plan.in.grid_shape[1] > 0 /\ plan.in.grid_shape[2] > 0)
    => LET rows == plan.in.grid_shape[1]
           cols == plan.in.grid_shape[2]
           tiles == plan.out.tiles
       IN  /\ plan.out.ok
           /\ Len(tiles) = rows * cols
           /\ \A k \in 1..Len(tiles) :
                /\ tiles[k].width = plan.in.chunk_size[1]
                /\ tiles[k].height = plan.in.chunk_size[2]
                /\ (k - 1) % cols = cols - 1
                     => tiles[k].bbox.max_x = plan.in.bbox.max_x
                /\ (k - 1) \div cols = rows - 1
                     => tiles[k].bbox.max_y = plan.in.bbox.max_y
           /\ Partition(tiles, plan.in.bbox)

\* a 2 x 2 plan of a box whose spans the grid does not divide
C13Witness ==
  /\ plan.op = "plan_grid"
  /\ plan.in.grid_shape = <<2, 2>>
  /\ (plan.in.bbox.max_x - plan.in.bbox.min_x) % 2 = 1
  /\ (plan.in.bbox.max_y - plan.in.bbox.min_y) % 2 = 1
  /\ Len(plan.out.tiles) = 4

\* ---- resolution mode
ResolutionCall ==
  /\ plan.op = "plan_resolution"
  /\ plan.in.resolution[1] > 0 /\ plan.in.resolution[2] > 0

FootX == plan.in.chunk_size[1] * plan.in.resolution[1]

FootY == plan.in.chunk_size[2] * plan.in.resolution[2]

SpanX == plan.in.bbox.max_x - plan.in.bbox.min_x

SpanY == plan.in.bbox.max_y - plan.in.bbox.min_y

Epsilon == Div(Min(plan.in.resolution[1], plan.in.resolution[2]), 10)

\* what is left of a span after the whole footprints, when the loop drops it
Dropped(span, foot) == IF span % foot <= Epsilon THEN span % foot ELSE 0

\* every tile but the last of its row and of its column has the full
\* footprint
FullFootprints(tiles, bbox) ==
  \A k \in 1..Len(tiles) :
    /\ tiles[k].bbox.max_x - tiles[k].bbox.min_x = FootX
         \/ \A j \in 1..Len(tiles) : tiles[j].bbox.max_x <= tiles[k].bbox.max_x
    /\ tiles[k].bbox.max_y - tiles[k].bbox.min_y = FootY
         \/ \A j \in 1..Len(tiles) : tiles[j].bbox.max_y <= tiles[k].bbox.max_y

\* the last tile of each row and of each column ends on the box's edge
EndsOnEdges(tiles, bbox) ==
  /\ Len(tiles) > 0
  /\ \A k \in 1..Len(tiles) :
       /\ tiles[k].bbox.max_x = bbox.max_x
            \/ \E j \in 1..Len(tiles) : tiles[j].bbox.max_x > tiles[k].bbox.max_x
       /\ tiles[k].bbox.max_y = bbox.max_y
            \/ \E j \in 1..Len(tiles) : tiles[j].bbox.max_y > tiles[k].bbox.max_y

\* C14, as the specification states it: in resolution mode, for any valid
\* bounding box and positive resolution, the tiles have pairwise disjoint
\* interiors and their union is exactly the bounding box; every tile has the
\* footprint (w * res_x, h * res_y) except the last of each row and column,
\* which ends on the box's edge.
C14Claim ==
  ResolutionCall
    => /\ plan.out.ok
       /\ Partition(plan.out.tiles, plan.in.bbox)
       /\ FullFootprints(plan.out.tiles, plan.in.bbox)
       /\ EndsOnEdges(plan.out.tiles, plan.in.bbox)

\* What the planner covers: the tiles have pairwise disjoint interiors and
\* full footprints but for the last of each row and column, and their union
\* is the bounding box less, on each axis, a remainder of the span after the
\* whole footprints that is at most epsilon = min(res_x, res_y) / 10.
CoversLessRemainder ==
  ResolutionCall
    => LET b == plan.in.bbox
           covered == BBox(b.min_x, b.min_y,
                           b.max_x - Dropped(SpanX, FootX),
                           b.max_y - Dropped(SpanY, FootY))
       IN  /\ plan.out.ok
           /\ FullFootprints(plan.out.tiles, b)
           /\ IF ValidBBox(covered)
                THEN /\ Partition(plan.out.tiles, covered)
                     /\ EndsOnEdges(plan.out.tiles, covered)
                ELSE plan.out.tiles = <<>>

CRSs == {"EPSG:4326", "EPSG:3857", "EPSG:32633", "EPSG:27700"}

\* WCSService._subset_axes: the axis labels of a CRS
_subset_axes_geographic(crs) == <<"Long", "Lat">>

_subset_axes(crs) ==
  IF crs = "EPSG:27700" THEN <<"E", "N">>
  ELSE IF crs = "EPSG:3857" THEN <<"X", "Y">>
  ELSE <<"Long", "Lat">>

\* WCSService._format_subset: the two expressions "axis(lo,hi)", each held
\* as the triple of its axis and its two numbers
_format_subset(bbox, crs) ==
  LET axis_x == _subset_axes(crs)[1]
      axis_y == _subset_axes(crs)[2]
  IN  <<<<axis_x, bbox.min_x, bbox.max_x>>, <<axis_y, bbox.min_y, bbox.max_y>>>>

\* the subset of a tile that is requested in the CRS of its own bbox
Subset(bbox) == _format_subset(bbox, bbox.crs)

\* WCSService.build_tile_request with a crs option: `options.get("crs") or
\* tile.crs`, where a planned tile has the CRS of its bbox
build_tile_request_in(tile, crs_option) ==
  LET crs == IF crs_option # None THEN crs_option ELSE tile.bbox.crs
  IN  [TileRequest(<<Param(1, "list", _format_subset(tile.bbox, crs))>>, {},
                   DefaultTimeout, MaxRetries, "image/tiff", tile.bbox,
                   tile.width, tile.height)
         EXCEPT !.crs = crs]

build_tile_request(tile) == build_tile_request_in(tile, None)

\* the sort key of _organize_tiles: (-max_y, min_x)
TileLessSouthFirst(a, b) ==
  \/ a.bbox.max_y < b.bbox.max_y
  \/ a.bbox.max_y = b.bbox.max_y /\ a.bbox.min_x < b.bbox.min_x

TileLess(a, b) ==
  \/ -a.bbox.max_y < -b.bbox.max_y
  \/ -a.bbox.max_y = -b.bbox.max_y /\ a.bbox.min_x < b.bbox.min_x

\* sorted() is stable: x goes behind everything that is not greater than it
RECURSIVE InsertTile(_, _)
InsertTile(x, sorted) ==
  IF sorted = <<>> THEN <<x>>
  ELSE IF TileLess(x, Head(sorted)) THEN <<x>> \o sorted
  ELSE <<Head(sorted)>> \o InsertTile(x, Tail(sorted))

RECURSIVE SortedTiles(_)
SortedTiles(requests) ==
  IF requests = <<>> THEN <<>>
  ELSE InsertTile(requests[Len(requests)],
                  SortedTiles(SubSeq(requests, 1, Len(requests) - 1)))

\* the check of the tile count
CountAtLeast(tile_requests, rows, cols) == Len(tile_requests) >= rows * cols

CountMatches(tile_requests, rows, cols) == Len(tile_requests) = rows * cols

\* _organize_tiles: the grid, or ok = FALSE for the ValueError of the count
_organize_tiles(tile_requests, rows, cols) ==
  IF ~CountMatches(tile_requests, rows, cols)
    THEN [ok |-> FALSE, grid |-> <<>>]
    ELSE LET sorted_tiles == SortedTiles(tile_requests)
         IN  [ok |-> TRUE,
              grid |-> [r \in 1..rows |->
                          [c \in 1..cols |-> sorted_tiles[(r - 1) * cols + c]]]]

\* the orders in which the requests of a plan are handed over
Rotate(seq, n) == SubSeq(seq, n + 1, Len(seq)) \o SubSeq(seq, 1, n)

Reverse(seq) == [k \in 1..Len(seq) |-> seq[Len(seq) + 1 - k]]

Orders(seq) ==
  { Rotate(seq, n) : n \in 0..(Len(seq) - 1) }
    \cup { Reverse(Rotate(seq, n)) : n \in 0..(Len(seq) - 1) }
    \cup { Rotate(Reverse(Rotate(seq, n)), 1) : n \in 0..(Len(seq) - 1) }

\* _organize_tiles called on the requests of a regular grid, in some order
OrganizeTiles ==
  /\ plan = NoCall
  /\ \E bbox \in GridBoxes, chunk_size \in ChunkSizes,
        grid_shape \in (1..MaxGrid) \X (1..MaxGrid) :
       LET planned == plan_tiles(bbox, chunk_size, NoOption, grid_shape).tiles
           requests == [k \in 1..Len(planned) |-> build_tile_request(planned[k])]
       IN  \E tile_requests \in Orders(requests) :
             plan' = [op |-> "organize",
                      in |-> [planned |-> requests, tile_requests |-> tile_requests,
                              rows |-> grid_shape[1], cols |-> grid_shape[2]],
                      out |-> _organize_tiles(tile_requests, grid_shape[1],
                                              grid_shape[2])]
  /\ UNCHANGED <<taskVars, build, env>>

\* the arrays a decoder hands to _downsample_array: the values are
\* multiples of 24 so that the mean of every block of up to 2 x 4 cells is
\* exact
DecodedArrays ==
  UNION { [1..h -> [1..w -> {0, 24}]] : h \in {1, 2}, w \in {1, 2, 3, 4} }

TargetShapes == (0..2) \X (1..2)

\* _downsample_array called on a decoded array
Downsample ==
  /\ plan = NoCall
  /\ \E array \in DecodedArrays, target \in TargetShapes :
       plan' = [op |-> "downsample",
                in |-> [array |-> array, target_height |-> target[1],
                        target_width |-> target[2]],
                out |-> _downsample_array(array, target[1], target[2])]
  /\ UNCHANGED <<taskVars, build, env>>

\* WCSService.build_tile_request on one tile, with or without a crs option
BuildTileRequest ==
  /\ plan = NoCall
  /\ \E bbox \in GridBoxes, tile_crs \in CRSs, crs_option \in CRSs \cup {None},
        chunk_size \in ChunkSizes :
       LET tile == TileGeometry([bbox EXCEPT !.crs = tile_crs],
                                chunk_size[1], chunk_size[2])
       IN  plan' = [op |-> "build_tile_request",
                    in |-> [tile |-> tile, crs |-> crs_option],
                    out |-> build_tile_request_in(tile, crs_option)]
  /\ UNCHANGED <<taskVars, build, env>>

\* the construction of a BoundingBox from four coordinates
Construct ==
  /\ plan = NoCall
  /\ \E min_x \in Coordinates, min_y \in Coordinates,
        max_x \in Coordinates, max_y \in Coordinates :
       plan' = [op |-> "bounding_box",
                in |-> [min_x |-> min_x, min_y |-> min_y,
                        max_x |-> max_x, max_y |-> max_y],
                out |-> BoundingBox(min_x, min_y, max_x, max_y)]
  /\ UNCHANGED <<taskVars, build, env>>

NextPlan ==
  \/ Construct
  \/ PlanGrid
  \/ PlanResolution
  \/ OrganizeTiles
  \/ Downsample
  \/ BuildTileRequest

SpecPlan == InitPlan /\ [][NextPlan]_vars

\* C16: for the rows * cols requests of a regular grid in any order,
\* _organize_tiles returns the same grid: row 0 holds the tiles with the
\* greatest north edge, each later row lies further south, within a row the
\* tiles are in ascending min_x, and the grid is a permutation of the input.
C16Theorem ==
  plan.op = "organize"
    => LET rows == plan.in.rows
           cols == plan.in.cols
           grid == plan.out.grid
       IN  /\ plan.out.ok
           /\ \A r \in 1..rows, c \in 1..cols :
                /\ grid[r][c] = plan.in.planned[(rows - r) * cols + c]
                /\ \A r2 \in 1..rows, c2 \in 1..cols :
                     /\ r < r2 => grid[r][c].bbox.max_y > grid[r2][c2].bbox.max_y
                     /\ (r = r2 /\ c < c2)
                          => grid[r][c].bbox.min_x < grid[r][c2].bbox.min_x
           /\ \A k \in 1..Len(plan.in.tile_requests) :
                \E r \in 1..rows, c \in 1..cols : grid[r][c] = plan.in.tile_requests[k]
           /\ \A r, r2 \in 1..rows, c, c2 \in 1..cols :
                grid[r][c] = grid[r2][c2] => (r = r2 /\ c = c2)

\* a 2 x 2 grid handed over in an order that is neither the planner's nor
\* the grid's
C16Witness ==
  /\ plan.op = "organize"
  /\ plan.in.rows = 2 /\ plan.in.cols = 2
  /\ plan.in.tile_requests # plan.in.planned
  /\ plan.in.tile_requests[1] # plan.out.grid[1][1]
  /\ plan.out.ok

\* the sum of the cells of an array at a set of <<row, column>> places
RECURSIVE SumCells(_, _)
SumCells(array, cells) ==
  IF cells = {} THEN 0
  ELSE LET x == CHOOSE x \in cells : TRUE
       IN  array[x[1]][x[2]] + SumCells(array, cells \ {x})

\* C18: _downsample_array applied to an array of shape (fy * H, fx * W) with
\* target (H, W), fy and fx positive integers, returns an array of shape
\* (H, W) whose cell (i, j) is the mean of the fy x fx block of the input at
\* rows i * fy .. i * fy + fy - 1 and columns j * fx .. j * fx + fx - 1, so
\* that a uniform input gives its value in every cell; an input already of
\* shape (H, W) is returned unchanged.
C18Theorem ==
  (/\ plan.op = "downsample"
   /\ plan.in.target_height > 0
   /\ Height(plan.in.array) % plan.in.target_height = 0
   /\ Width(plan.in.array) % plan.in.target_width = 0)
    => LET array == plan.in.array
           H == plan.in.target_height
           W == plan.in.target_width
           fy == Height(array) \div H
           fx == Width(array) \div W
           down == plan.out.array
       IN  /\ plan.out.ok
           /\ Height(down) = H /\ Width(down) = W
           /\ \A i \in 0..(H - 1), j \in 0..(W - 1) :
                down[i + 1][j + 1] * (fy * fx) =
                  SumCells(array, ((i * fy + 1)..(i * fy + fy))
                                    \X ((j * fx + 1)..(j * fx + fx)))
           /\ \A v \in {0, 24} :
                array = Full(Height(array), Width(array), v) => down = Full(H, W, v)
           /\ (fy = 1 /\ fx = 1) => down = array

\* a 2 x 4 array that is not uniform, reduced to 1 x 2
C18Witness ==
  /\ plan.op = "downsample"
  /\ Height(plan.in.array) = 2 /\ Width(plan.in.array) = 4
  /\ plan.in.target_height = 1 /\ plan.in.target_width = 2
  /\ plan.in.array[1][1] # plan.in.array[2][2]
  /\ plan.out.ok
  /\ plan.out.array[1][1] = 12

\* ============================================================== tile tasks
\* the decoded array cannot be brought to the requested shape
ShapeMismatch(array, request) ==
  /\ array # <<>>
  /\ request.height # 0 /\ request.width # 0
  /\ \/ Height(array) < request.height
     \/ Width(array) < request.width
     \/ Height(array) % request.height # 0
     \/ Width(array) % request.width # 0

\* C19: when the decoded tile is smaller than the requested (height, width)
\* in either axis, or larger but not an exact integer multiple of it in both
\* axes, the task fails with a shape error that reaches the caller: it
\* returns no array, neither the decoded one nor a NaN fill.
C19Theorem ==
  \A t \in Tasks :
    ShapeMismatch(decoded[t], req[t])
      => /\ pc[t] = "raised"
         /\ err[t] = "ShapeError"
         /\ result[t] = <<>>

\* one task failed on a decoded array that is too small, another on one
\* whose width is not a multiple of the requested width
C19Witness ==
  \E t, u \in Tasks :
    /\ err[t] = "ShapeError" /\ Width(decoded[t]) < req[t].width
    /\ err[u] = "ShapeError" /\ Width(decoded[u]) > req[u].width

\* ============================================================ create_array
\* One call of create_array, step by step, and what follows it when the
\* caller forces the computation.  The counters record what the call has
\* done to the outside: HTTP requests of any kind, tile fetches, accesses to
\* the cache directory.

DefaultChunk == 256

\* ArrayRequest.from_inputs: `a or b` takes the first that is given, as
\* every tuple given is non-empty; ok = FALSE stands for the ValueError
from_inputs(in) ==
  LET chunk_candidate ==
        IF in.chunk_size # NoOption THEN in.chunk_size
        ELSE IF in.defaults.chunk_size # NoOption THEN in.defaults.chunk_size
        ELSE <<DefaultChunk, DefaultChunk>>
      chunk_width == chunk_candidate[1]
      chunk_height == chunk_candidate[2]
      resolution ==
        IF in.resolution # NoOption THEN in.resolution ELSE in.defaults.resolution
      fallback_grid == in.defaults.grid_shape
      given_grid ==
        IF in.grid_shape # NoOption THEN in.grid_shape
        ELSE IF fallback_grid # NoOption THEN fallback_grid
        ELSE <<1, 1>>
      infer == in.grid_shape = NoOption /\ fallback_grid = NoOption
                 /\ resolution # NoOption
      span_x == in.bbox.max_x - in.bbox.min_x
      span_y == in.bbox.max_y - in.bbox.min_y
      failed == [ok |-> FALSE, chunk_size |-> <<>>, grid_shape |-> <<>>,
                 resolution |-> <<>>]
  IN  IF chunk_width <= 0 \/ chunk_height <= 0 THEN failed
      ELSE IF given_grid[1] <= 0 \/ given_grid[2] <= 0 THEN failed
      ELSE IF infer /\ (resolution[1] <= 0 \/ resolution[2] <= 0) THEN failed
      ELSE [ok |-> TRUE,
            chunk_size |-> <<chunk_height, chunk_width>>,
            grid_shape |->
              IF infer
                THEN <<Max(1, Ceil(span_y, chunk_height * resolution[2])),
                       Max(1, Ceil(span_x, chunk_width * resolution[1]))>>
                ELSE given_grid,
            resolution |-> resolution]

\* ArrayRequest.tile_options: the resolution the planner is given is the
\* service config's when it has one, else the request's
tile_options(in, request) ==
  [grid_shape |-> request.grid_shape,
   resolution |-> IF in.defaults.resolution # NoOption
                    THEN in.defaults.resolution ELSE request.resolution]

\* the formats _DECODER_REGISTRY has a decoder for when neither PIL nor
\* imageio is installed
_DECODER_REGISTRY == {"image/tiff"}

\* ArrayRequest.effective_format: the request's output format, else the
\* service's, which for a WCSService is GeoTIFF unless it was given one
effective_format(in) ==
  IF in.output_format # None THEN in.output_format ELSE "image/tiff"

\* _resolve_decoder: the decoder passed, else the one registered for the
\* effective format; ok = FALSE stands for the RuntimeError
_resolve_decoder_any(in) ==
  [ok |-> TRUE,
   decoder |-> IF in.tile_decoder THEN "tile_decoder" ELSE effective_format(in)]

_resolve_decoder(in) ==
  IF in.tile_decoder THEN [ok |-> TRUE, decoder |-> "tile_decoder"]
  ELSE IF effective_format(in) \in _DECODER_REGISTRY
    THEN [ok |-> TRUE, decoder |-> effective_format(in)]
  ELSE [ok |-> FALSE, decoder |-> None]

\* the inputs of create_array
NoDefaults ==
  [chunk_size |-> NoOption, grid_shape |-> NoOption, resolution |-> NoOption]

ConfigDefaults ==
  { NoDefaults,
    [NoDefaults EXCEPT !.grid_shape = <<1, MaxGrid>>],
    [NoDefaults EXCEPT !.resolution = <<10, 10>>],
    [NoDefaults EXCEPT !.resolution = <<0, 10>>],
    [NoDefaults EXCEPT !.chunk_size = <<1, 0>>] }

CreateInputs ==
  { in \in [service : {"url", "ServiceConfig", "WCSConfig"},
            defaults : ConfigDefaults,
            bbox : { BBox(0, 0, 20, 10), BBox(0, 0, 21, 10), BBox(0, 0, 40, 20) },
            chunk_size : { NoOption, <<1, 1>>, <<2, 1>>, <<0, 1>> },
            grid_shape : { NoOption, <<1, MaxGrid>>, <<0, 1>> },
            resolution : { NoOption, <<10, 10>>, <<10, 0>> },
            tile_decoder : BOOLEAN,
            output_format : {None, "image/tiff", "image/png"},
            cache_dir : BOOLEAN,
            compute : BOOLEAN] :
      in.service = "url" => in.defaults = NoDefaults }

InitCreate ==
  /\ NoTasks
  /\ plan = NoCall
  /\ env = NoEnv
  /\ \E in \in CreateInputs :
       build = [pc |-> "from_inputs", in |-> in, request |-> from_inputs(in),
                decoder |-> None, tile_requests |-> <<>>, tile_grid |-> <<>>,
                shape |-> <<0, 0>>, y_coords |-> <<>>, x_coords |-> <<>>,
                tasks |-> 0, ran |-> 0, http |-> 0,
                fetches |-> 0, cache_io |-> 0, forced |-> FALSE, err |-> NoError]

Raise(e) == build' = [build EXCEPT !.pc = "raised", !.err = e]

\* ArrayRequest.from_inputs returns or raises
FromInputs ==
  /\ build.pc = "from_inputs"
  /\ IF build.request.ok
       THEN build' = [build EXCEPT !.pc = "build_service"]
       ELSE Raise("ValueError")
  /\ UNCHANGED <<taskVars, plan, env>>

\* request.build_service: get_service makes no request
BuildService ==
  /\ build.pc = "build_service"
  /\ build.in.service # "WCSConfig"
  /\ build' = [build EXCEPT !.pc = "resolve_decoder"]
  /\ UNCHANGED <<taskVars, plan, env>>

\* WCSConfig.build_service: describe_coverage sends a DescribeCoverage
\* request, and a failure of it is raised as ValueError
DescribeCoverage ==
  /\ build.pc = "build_service"
  /\ build.in.service = "WCSConfig"
  /\ \E ok \in BOOLEAN :
       build' = [build EXCEPT !.http = @ + 1,
                              !.pc = IF ok THEN "resolve_decoder" ELSE "raised",
                              !.err = IF ok THEN @ ELSE "ValueError"]
  /\ UNCHANGED <<taskVars, plan, env>>

\* _resolve_decoder sets the decoder or raises RuntimeError
ResolveDecoder ==
  /\ build.pc = "resolve_decoder"
  /\ IF _resolve_decoder(build.in).ok
       THEN build' = [build EXCEPT !.pc = "plan",
                                   !.decoder = _resolve_decoder(build.in).decoder]
       ELSE Raise("RuntimeError")
  /\ UNCHANGED <<taskVars, plan, env>>

\* request.plan_tile_requests: plan_tiles and one build_tile_request a tile
PlanTileRequests ==
  /\ build.pc = "plan"
  /\ LET options == tile_options(build.in, build.request)
         planned == plan_tiles(build.in.bbox,
                               <<build.request.chunk_size[2], build.request.chunk_size[1]>>,
                               options.resolution, options.grid_shape)
     IN  IF planned.ok
           THEN build' = [build EXCEPT
                  !.pc = "organize",
                  !.tile_requests = [k \in 1..Len(planned.tiles) |->
                                       build_tile_request(planned.tiles[k])]]
           ELSE Raise("ValueError")
  /\ UNCHANGED <<taskVars, plan, env>>

\* _organize_tiles on the planned requests
Organize ==
  /\ build.pc = "organize"
  /\ IF _organize_tiles(build.tile_requests, build.request.grid_shape[1],
                        build.request.grid_shape[2]).ok
       THEN build' = [build EXCEPT
              !.pc = "blocks",
              !.tile_grid = _organize_tiles(build.tile_requests,
                                            build.request.grid_shape[1],
                                            build.request.grid_shape[2]).grid]
       ELSE Raise("TileCountError")
  /\ UNCHANGED <<taskVars, plan, env>>

\* `a or b` on integers: b stands in for a missing or zero a
Or(a, b) == IF a = 0 THEN b ELSE a

\* the declared shape (height, width) of the block of one tile request
BlockShape(tile_request, chunk_size) ==
  <<Or(tile_request.height, chunk_size[1]), Or(tile_request.width, chunk_size[2])>>

RECURSIVE SumTo(_, _)
SumTo(f, n) == IF n = 0 THEN 0 ELSE f[n] + SumTo(f, n - 1)

\* dask.array.block on a list of rows of blocks: each row is joined along x,
\* the rows are stacked along y; ok = FALSE for shapes that do not fit
da_block(blocks) ==
  LET rows  == Len(blocks)
      cols  == Len(blocks[1])
      width(r) == SumTo([c \in 1..cols |-> blocks[r][c][2]], cols)
  IN  IF /\ \A r \in 1..rows : \A c \in 1..cols : blocks[r][c][1] = blocks[r][1][1]
         /\ \A r \in 1..rows : width(r) = width(1)
        THEN [ok |-> TRUE,
              shape |-> <<SumTo([r \in 1..rows |-> blocks[r][1][1]], rows), width(1)>>]
        ELSE [ok |-> FALSE, shape |-> <<0, 0>>]

\* numpy.linspace(start, stop, num) with the endpoint: no sample for num = 0,
\* the start alone for num = 1, and else num evenly spaced samples of which
\* the last is the stop itself; a sample is rounded down to the unit
linspace_open(start, stop, num) ==
  [i \in 1..num |-> start + Div((i - 1) * (stop - start), num)]

linspace(start, stop, num) ==
  [i \in 1..num |->
     IF num = 1 THEN start
     ELSE IF i = num THEN stop
     ELSE start + Div((i - 1) * (stop - start), num - 1)]

\* the loop that wraps one delayed _load_tile_array per tile of the grid,
\* the assembly of the blocks and the coordinates of the DataArray
CreateBlocks ==
  /\ build.pc = "blocks"
  /\ LET blocks == [r \in 1..Len(build.tile_grid) |->
                      [c \in 1..Len(build.tile_grid[r]) |->
                         BlockShape(build.tile_grid[r][c], build.request.chunk_size)]]
         data   == da_block(blocks)
     IN  IF data.ok
           THEN build' = [build EXCEPT
                  !.tasks = build.request.grid_shape[1] * build.request.grid_shape[2],
                  !.shape = data.shape,
                  !.y_coords = linspace(build.in.bbox.min_y, build.in.bbox.max_y,
                                        data.shape[1]),
                  !.x_coords = linspace(build.in.bbox.min_x, build.in.bbox.max_x,
                                        data.shape[2]),
                  !.pc = "built"]
           ELSE Raise("ValueError")
  /\ UNCHANGED <<taskVars, plan, env>>

\* `return data_array.compute() if compute else data_array`
Return ==
  /\ build.pc = "built"
  /\ build' = [build EXCEPT !.pc = IF build.in.compute THEN "compute" ELSE "returned",
                            !.forced = build.in.compute]
  /\ UNCHANGED <<taskVars, plan, env>>

\* the caller forces the lazy array
Force ==
  /\ build.pc = "returned"
  /\ build' = [build EXCEPT !.pc = "compute", !.forced = TRUE]
  /\ UNCHANGED <<taskVars, plan, env>>

\* one tile task runs: it looks into the cache when there is one, and
\* fetches the tile unless it found it there
RunTile ==
  /\ build.pc = "compute"
  /\ build.ran < build.tasks
  /\ \E hit \in {FALSE, build.in.cache_dir} :
       build' = [build EXCEPT
         !.ran = @ + 1,
         !.cache_io = IF build.in.cache_dir THEN @ + 1 ELSE @,
         !.fetches = IF hit THEN @ ELSE @ + 1,
         !.http = IF hit THEN @ ELSE @ + 1]
  /\ UNCHANGED <<taskVars, plan, env>>

\* every tile task has run
Computed ==
  /\ build.pc = "compute"
  /\ build.ran = build.tasks
  /\ build' = [build EXCEPT !.pc = "computed"]
  /\ UNCHANGED <<taskVars, plan, env>>

NextCreate ==
  \/ FromInputs
  \/ BuildService
  \/ DescribeCoverage
  \/ ResolveDecoder
  \/ PlanTileRequests
  \/ Organize
  \/ CreateBlocks
  \/ Return
  \/ Force
  \/ RunTile
  \/ Computed

SpecCreate == InitCreate /\ [][NextCreate]_vars

\* C11: building the array performs no HTTP request and no cache read or
\* write, whether the service is named by a URL or by a ServiceConfig or
\* WCSConfig; network and cache are touched only after the caller forces the
\* computation.
C11Claim ==
  (build.pc # "none" /\ ~build.forced) => (build.http = 0 /\ build.cache_io = 0)

\* the tile count was checked and differs from rows * cols
CountChecked ==
  /\ build.pc \notin {"none", "from_inputs", "build_service", "resolve_decoder",
                      "plan", "organize"}
  /\ build.err \notin {"ValueError", "RuntimeError"}
  /\ Len(build.tile_requests) #
       build.request.grid_shape[1] * build.request.grid_shape[2]

\* C17: if the number of tile requests differs from rows * cols of the grid
\* shape, assembly fails with an error before any deferred tile task is
\* created and before any tile fetch or cache access.
C17Theorem ==
  CountChecked
    => /\ build.pc = "raised"
       /\ build.err = "TileCountError"
       /\ build.tasks = 0
       /\ build.ran = 0
       /\ build.fetches = 0
       /\ build.cache_io = 0

\* a plan of more tiles than the grid shape given has places was refused
C17Witness ==
  /\ CountChecked
  /\ build.err = "TileCountError"
  /\ Len(build.tile_requests) > build.request.grid_shape[1] * build.request.grid_shape[2]

\* a chunk dimension, a grid count or a resolution component that the call
\* is given, by the caller or else by the service config, is not positive
NonPositive(in) ==
  LET chunk_size == IF in.chunk_size # NoOption THEN in.chunk_size
                    ELSE in.defaults.chunk_size
      grid_shape == IF in.grid_shape # NoOption THEN in.grid_shape
                    ELSE in.defaults.grid_shape
      resolution == IF in.resolution # NoOption THEN in.resolution
                    ELSE in.defaults.resolution
  IN  \E pair \in {chunk_size, grid_shape, resolution} :
        pair # NoOption /\ (pair[1] <= 0 \/ pair[2] <= 0)

\* C20: on every call path of create_array a non-positive chunk dimension,
\* grid row or column count, or resolution component is rejected with an
\* error before any network request is made.
C20Claim ==
  (build.pc # "none" /\ NonPositive(build.in))
    => /\ build.http = 0
       /\ build.pc \in {"from_inputs", "build_service", "resolve_decoder",
                        "plan", "raised"}

\* ========================================================= one array's tiles
\* The tile tasks of one array, run in any interleaving against a server, a
\* disk and a decoder whose behaviour towards each task is fixed beforehand.
\* The array is NTasks rows of one column; task t loads the t-th tile the
\* planner yields, counted from the south.

ArrayBox == BBox(0, 0, 4, 2 * NTasks)

ArrayGrid == <<NTasks, 1>>

ArrayTiles == plan_tiles(ArrayBox, <<2, 1>>, NoOption, ArrayGrid).tiles

ArrayRequests == [t \in Tasks |-> build_tile_request(ArrayTiles[t])]

\* what happens to one task: the outcome of its n-th GET, the body the
\* server has for its tile, the shape the decoder returns (<<0, 0>>: it
\* raises), what the disk does to its write, and the cache file it finds
Always(status) == [n \in 0..MaxRetries |-> status]

FailsOnce == [n \in 0..MaxRetries |-> IF n = 0 THEN "http" ELSE "ok"]

Behaviour(statuses, body, shape, disk, cached) ==
  [statuses |-> statuses, body |-> body, shape |-> shape, disk |-> disk,
   cached |-> cached]

BehaviourSeq ==
  << Behaviour(Always("ok"), <<7>>, <<1, 2>>, "ok", NoFile),
     Behaviour(FailsOnce, <<8, 9>>, <<2, 4>>, "ok", NoFile),
     Behaviour(Always("http"), <<7>>, <<1, 2>>, "ok", NoFile),
     Behaviour(Always("exc"), <<7>>, <<1, 2>>, "ok", NoFile),
     Behaviour(Always("ok"), <<7>>, <<0, 0>>, "ok", NoFile),
     Behaviour(Always("ok"), <<>>, <<1, 3>>, "ok", NoFile),
     Behaviour(Always("ok"), <<7>>, <<1, 2>>, "open_fails", NoFile),
     Behaviour(Always("ok"), <<8, 9>>, <<1, 2>>, "write_fails", NoFile),
     Behaviour(Always("http"), <<7>>, <<1, 2>>, "ok",
               [exists |-> TRUE, data |-> <<8, 9>>]) >>

Behaviours == { BehaviourSeq[i] : i \in 1..Len(BehaviourSeq) }

InitArray ==
  /\ env \in [Tasks -> Behaviours]
  /\ req = ArrayRequests
  /\ cacheDir \in {NoDir, CacheDir}
  /\ cache = [k \in { Key(t) : t \in Tasks } |->
                LET t == CHOOSE t \in Tasks : Key(t) = k IN env[t].cached]
  /\ served = [r \in { Resource(req[t]) : t \in Tasks } |->
                 LET t == CHOOSE t \in Tasks : Resource(req[t]) = r
                 IN  [set |-> TRUE, body |-> env[t].body]]
  /\ pc = [t \in Tasks |-> "start"]
  /\ attempt = [t \in Tasks |-> 0]
  /\ gets = [t \in Tasks |-> 0]
  /\ saw200 = [t \in Tasks |-> FALSE]
  /\ resp = [t \in Tasks |-> NoResponse]
  /\ via = [t \in Tasks |-> "none"]
  /\ wrote = [t \in Tasks |-> "none"]
  /\ decoded = [t \in Tasks |-> <<>>]
  /\ result = [t \in Tasks |-> <<>>]
  /\ err = [t \in Tasks |-> NoError]
  /\ plan = NoCall
  /\ build = NoBuild

\* the steps of the tasks are those of Spec, each taken when the fixed
\* behaviour of the server, the disk and the decoder allows it
ArrayStep(t) ==
  \/ CacheLookup(t)
  \/ /\ env[t].statuses[attempt[t]] = "ok"
     /\ Attempt200(t)
  \/ /\ env[t].statuses[attempt[t]] # "ok"
     /\ AttemptFail(t)
     /\ LastAttempt(req[t], attempt[t])
          => resp'[t] = FailureResponse(req[t], env[t].statuses[attempt[t]])
  \/ /\ env[t].disk # "open_fails"
     /\ WriteOpen(t)
  \/ /\ env[t].disk = "open_fails"
     /\ WriteOpenFail(t)
  \/ /\ env[t].disk # "write_fails"
     /\ WriteData(t)
  \/ /\ env[t].disk = "write_fails"
     /\ WriteDataFail(t)
  \/ LoadFailed(t)
  \/ /\ env[t].shape = <<0, 0>>
     /\ DecodeRaises(t)
     /\ err'[t] = "DecodeError"
  \/ /\ env[t].shape # <<0, 0>>
     /\ DecodeArray(t)
     /\ decoded'[t] = Pattern(env[t].shape[1], env[t].shape[2], resp[t].data)

NextArray == \E t \in Tasks : ArrayStep(t)

SpecArray == InitArray /\ [][NextArray]_vars

\* what task t comes to when it runs alone, from its request and its
\* behaviour only: [pc, result, err]
Alone(t) ==
  LET request == ArrayRequests[t]
      b == env[t]
      hit == cacheDir # NoDir /\ b.cached.exists
      oks == { n \in 0..request.retries : b.statuses[n] = "ok" }
      response ==
        IF hit THEN CacheHitResponse(request, b.cached.data)
        ELSE IF oks # {} THEN OkResponse(request, b.body)
        ELSE FailureResponse(request, b.statuses[request.retries])
      writes == ~hit /\ ShouldWrite(cacheDir, response)
      array == Pattern(b.shape[1], b.shape[2], response.data)
      down == _downsample_array(array, request.height, request.width)
      Raised(e) == [pc |-> "raised", result |-> <<>>, err |-> e]
  IN  IF writes /\ b.disk # "ok" THEN Raised("OSError")
      ELSE IF ~response.success
        THEN [pc |-> "done", result |-> NanFill(request), err |-> NoError]
      ELSE IF b.shape = <<0, 0>> THEN Raised("DecodeError")
      ELSE IF down.ok
        THEN [pc |-> "done", result |-> down.array, err |-> NoError]
      ELSE Raised("ShapeError")

\* the blocks of the materialized array, when the requests were handed to
\* _organize_tiles in the given order: block (r, c) is what the task of the
\* request at (r, c) returned
Blocks(tile_requests) ==
  LET grid == _organize_tiles(tile_requests, ArrayGrid[1], ArrayGrid[2]).grid
  IN  [r \in 1..ArrayGrid[1] |->
         [c \in 1..ArrayGrid[2] |->
            result[CHOOSE t \in Tasks : req[t] = grid[r][c]]]]

\* C12: for fixed server responses the materialized array is the same for
\* every order and every interleaving in which the tile tasks run: each
\* task ends as it would alone, whatever its siblings did and when, and the
\* block of a tile lies where its bbox puts it, the northernmost first,
\* whatever the order of the requests.
C12Theorem ==
  /\ \A t \in Tasks :
       Finished(t)
         => [pc |-> pc[t], result |-> result[t], err |-> err[t]] = Alone(t)
  /\ (\A t \in Tasks : pc[t] = "done")
       => \A tile_requests \in Orders(req) :
            Blocks(tile_requests) =
              [r \in 1..NTasks |-> <<Alone(NTasks + 1 - r).result>>]

\* the array is materialized: the northern tile was fetched and reduced
\* after the southern one, which could not be fetched, was filled with NaN
C12Witness ==
  /\ \A t \in Tasks : pc[t] = "done"
  /\ result[1] = NanFill(req[1])
  /\ env[NTasks].shape = <<2, 4>>
  /\ via[NTasks] = "live"
  /\ wrote[NTasks] = "ok"
  /\ result[NTasks] # NanFill(req[NTasks])

\* ================================================== create_array, continued
\* no tile_decoder is passed and none is registered for the effective format
NoDecoder(in) ==
  ~in.tile_decoder /\ effective_format(in) \notin _DECODER_REGISTRY

\* C21: if no tile_decoder is passed and no decoder is registered for the
\* effective format, create_array raises before any tile is planned or
\* fetched; and it never returns an array whose tiles have no decoder.
C21Theorem ==
  /\ (build.pc # "none" /\ NoDecoder(build.in))
       => /\ build.pc \in {"from_inputs", "build_service", "resolve_decoder", "raised"}
          /\ build.tile_requests = <<>>
          /\ build.tasks = 0
          /\ build.fetches = 0
          /\ (build.pc = "raised" /\ build.err # "ValueError")
               => build.err = "RuntimeError"
  /\ build.pc \in {"built", "returned", "compute", "computed"}
       => build.decoder \in _DECODER_REGISTRY \cup {"tile_decoder"}

\* the call for PNG tiles without a decoder got as far as _resolve_decoder
\* and was refused there
C21Witness ==
  /\ build.pc = "raised"
  /\ build.err = "RuntimeError"
  /\ build.in.output_format = "image/png"
  /\ NoDecoder(build.in)

\* create_array has assembled the blocks and labelled the axes
Assembled == build.pc \in {"built", "returned", "compute", "computed"}

GridRows == Len(build.tile_grid)

GridCols == Len(build.tile_grid[1])

\* the sum of the tile heights down the first grid column
ColumnHeight == SumTo([r \in 1..GridRows |-> build.tile_grid[r][1].height], GridRows)

\* the sum of the tile widths along the first grid row
RowWidth == SumTo([c \in 1..GridCols |-> build.tile_grid[1][c].width], GridCols)

\* the planner was given no resolution: explicit-grid mode
ExplicitGrid == tile_options(build.in, build.request).resolution = NoOption

ShapeOfTiles ==
  /\ build.shape = <<ColumnHeight, RowWidth>>
  /\ ExplicitGrid
       => build.shape = <<GridRows * build.request.chunk_size[1],
                          GridCols * build.request.chunk_size[2]>>
  /\ Len(build.y_coords) = build.shape[1]
  /\ Len(build.x_coords) = build.shape[2]

\* the first and last sample of a coordinate vector are lo and hi
EndsAt(coords, lo, hi) == coords[1] = lo /\ coords[Len(coords)] = hi

\* C22 as stated: the shape is the sum of the tile heights by the sum of the
\* tile widths, the coordinate vectors have those lengths, and their first
\* and last values are the bounding box's min and max on that axis.
C22Claim ==
  Assembled
    => /\ ShapeOfTiles
       /\ EndsAt(build.y_coords, build.in.bbox.min_y, build.in.bbox.max_y)
       /\ EndsAt(build.x_coords, build.in.bbox.min_x, build.in.bbox.max_x)

\* C22, amended: the shape and the lengths are as stated; the coordinates of
\* an axis of two pixels or more start at the bounding box's min and end at
\* its max, while an axis of one pixel has the single coordinate min.
C22Theorem ==
  Assembled
    => /\ ShapeOfTiles
       /\ IF build.shape[1] >= 2
            THEN EndsAt(build.y_coords, build.in.bbox.min_y, build.in.bbox.max_y)
            ELSE build.y_coords = <<build.in.bbox.min_y>>
       /\ IF build.shape[2] >= 2
            THEN EndsAt(build.x_coords, build.in.bbox.min_x, build.in.bbox.max_x)
            ELSE build.x_coords = <<build.in.bbox.min_x>>

\* an array of one pixel row and four pixel columns from two tiles
C22Witness ==
  /\ Assembled
  /\ GridCols = 2
  /\ build.shape = <<1, 4>>
  /\ build.y_coords = <<build.in.bbox.min_y>>
  /\ build.x_coords[4] = build.in.bbox.max_x

\* the grid row whose blocks hold pixel row i, and the grid column whose
\* blocks hold pixel column j, counted as da_block lays the blocks out
RECURSIVE BlockOf(_, _, _)
BlockOf(sizes, i, k) ==
  IF i <= sizes[k] THEN k ELSE BlockOf(sizes, i - sizes[k], k + 1)

RowOf(i) == BlockOf([r \in 1..GridRows |-> build.tile_grid[r][1].height], i, 1)

ColOf(j) == BlockOf([c \in 1..GridCols |-> build.tile_grid[1][c].width], j, 1)

\* every pixel row is labelled with a y of the tiles that fill it
YLabelsInside ==
  \A i \in 1..build.shape[1] :
    \A c \in 1..GridCols :
      LET bbox == build.tile_grid[RowOf(i)][c].bbox
      IN  bbox.min_y <= build.y_coords[i] /\ build.y_coords[i] <= bbox.max_y

\* every pixel column is labelled with an x of the tiles that fill it
XLabelsInside ==
  \A j \in 1..build.shape[2] :
    \A r \in 1..GridRows :
      LET bbox == build.tile_grid[r][ColOf(j)].bbox
      IN  bbox.min_x <= build.x_coords[j] /\ build.x_coords[j] <= bbox.max_x

\* C27 as stated: in the assembled array the y coordinate of a pixel row
\* lies within [min_y, max_y] of the tile whose data fills that row, and the
\* x coordinate of a pixel column within [min_x, max_x] of the tile whose
\* data fills that column.
C27Claim == Assembled => YLabelsInside /\ XLabelsInside

\* C26 as stated: for every input from_inputs accepts, the planner produces
\* rows * cols tile requests for the request's grid_shape, so create_array
\* never fails the tile-count check on its own plan.
C26Claim ==
  /\ build.tile_requests # <<>>
       => Len(build.tile_requests)
            = build.request.grid_shape[1] * build.request.grid_shape[2]
  /\ build.err # "TileCountError"

\* ============================================ WCSService.build_tile_request
\* the CRS a request is built in: the crs option, else the tile's
RequestCRS == IF plan.in.crs # None THEN plan.in.crs ELSE plan.in.tile.bbox.crs

\* the two subset expressions of the request that was built
SubsetOf(request) == request.params[1].v

C24Theorem ==
  /\ (/\ plan.op = "bounding_box"
      /\ (plan.in.min_x >= plan.in.max_x \/ plan.in.min_y >= plan.in.max_y))
       => ~plan.out.ok
  /\ plan.op \in {"plan_grid", "plan_resolution"}
       => \A k \in 1..Len(plan.out.tiles) :
            /\ plan.out.tiles[k].bbox.min_x < plan.out.tiles[k].bbox.max_x
            /\ plan.out.tiles[k].bbox.min_y < plan.out.tiles[k].bbox.max_y

\* a box of no width and positive height was refused
C24Witness ==
  /\ plan.op = "bounding_box"
  /\ plan.in.min_x = plan.in.max_x
  /\ plan.in.min_y < plan.in.max_y
  /\ ~plan.out.ok

\* ================================================= the request of a fetch
\* C25 as stated: fetching a tile leaves its TileRequest unchanged: no step
\* of fetch_tile or _fetch_with_cache changes a field of the request.
C25Claim == [][\A t \in Tasks : req'[t] = req[t]]_vars

\* ========================================================= the cache files
\* the file k holds the body of a 200 answer to a request with the key k
HoldsServedBody(k) ==
  \E r \in RequestPool :
    /\ _cache_key(r) = k
    /\ served[Resource(r)].set
    /\ cache[k].data = served[Resource(r)].body

\* a step changes the cache only on behalf of a task whose live fetch was
\* answered with 200 and which is writing the file of its own key
OnlyLiveSuccessWrites ==
  \A k \in Keys :
    cache'[k] # cache[k]
      => \E t \in Tasks :
           /\ Key(t) = k
           /\ via[t] = "live" /\ resp[t].success
           /\ pc[t] \in {"wopen", "wwrite"} /\ pc'[t] # pc[t]

\* C28 as stated: in every reachable state each cache file holds exactly the
\* body of some HTTP-200 response to a request with that file's cache key;
\* a fetch that fails and a fetch served from the cache never create or
\* change a cache entry.
C28Claim ==
  /\ [](\A k \in Keys : cache[k].exists => HoldsServedBody(k))
  /\ [][OnlyLiveSuccessWrites]_vars

\* the second half of C28 alone
C28Frame == [][OnlyLiveSuccessWrites]_vars

\* ===================================================== the shape of a block
\* the chunk sizes (height, width) create_array may have validated
ChunkShapes == (1..4) \X (1..4)

\* the array task t returned has the shape create_array declared for its
\* block when the chunk size was chunk_size
AsDeclared(t, chunk_size) ==
  <<Height(result[t]), Width(result[t])>> = BlockShape(req[t], chunk_size)

\* C29 as stated: every task that returns a value returns a 2-D array of the
\* (height, width) create_array declared for its block, after a failed
\* fetch and after a decoded one, also for requests without width or height;
\* the chunk size is any that makes the shapes agree.
C29Claim ==
  \A t \in Tasks :
    pc[t] = "done" => \E chunk_size \in ChunkShapes : AsDeclared(t, chunk_size)

\* the tasks of requests that carry a width and a height keep C29
SizedAsDeclared ==
  \A t \in Tasks :
    (pc[t] = "done" /\ req[t].height # 0 /\ req[t].width # 0)
      => \A chunk_size \in ChunkShapes : AsDeclared(t, chunk_size)

\* ============================================================= termination
\* the place of a behaviour in BehaviourSeq
Rank(b) == CHOOSE i \in 1..Len(BehaviourSeq) : BehaviourSeq[i] = b

\* the arrays of InitArray up to the order of the tiles: the tasks of an
\* array have a tile and a cache file each and share nothing else, so which
\* tile meets which behaviour makes no difference to whether a task ends
InitLive ==
  /\ InitArray
  /\ \A t \in Tasks : t + 1 \in Tasks => Rank(env[t]) <= Rank(env[t + 1])

\* the tasks of one forced array under a fair scheduler: dask runs each task
\* of the graph on a worker thread, every GET returns or times out and the
\* file operations return, so a task that can take a step is not kept from
\* it for ever
SpecLive ==
  InitLive /\ [][NextArray]_vars /\ \A t \in Tasks : WF_vars(ArrayStep(t))

====
